---- MODULE Spec2Model ----
(***************************************************************************)
(* Model of cobaya/theories/camb/camb.py: the `camb` theory wrapper with   *)
(* its three-slot parameter-state cache (compute / set / current_state),   *)
(* the requirement aggregator (needs) and the spectrum normaliser          *)
(* (get_cl).                                                               *)
(*                                                                         *)
(* Python values are represented as follows:                               *)
(*   - a dict is a function whose DOMAIN is its set of keys;               *)
(*   - an attribute that may hold None is a sequence: <<>> is None and     *)
(*     <<x>> is the value x;                                               *)
(*   - a float is an exact rational <<numerator, denominator>>;            *)
(*   - the value None stored inside a dict of numbers is NoneVal.          *)
(* The CAMB engine is external; it is modelled as a deterministic function *)
(* of the arguments it is given, and its failures as a nondeterministic    *)
(* outcome of each call.                                                   *)
(***************************************************************************)
EXTENDS Integers, Sequences, FiniteSets, TLC

(***************************************************************************)
(* Bounds of the model.                                                    *)
(***************************************************************************)
\* number of distinct parameter assignments the sampler may submit
NumVals == 4
\* largest multipole limit a likelihood announces through needs
MaxLmax == 3
\* compute is not taken once a recency stamp would fall below -MaxDrift
MaxDrift == 2
\* number of compute calls that may raise after calling the engine
MaxFailures == 1
\* number of distinct assignments submitted while requirements are announced
NumValsNeeds == 2

(***************************************************************************)
(* Program constants.                                                      *)
(***************************************************************************)
n_states == 3
NoneVal == 0 - 1
\* lmax the engine uses when the arguments carry none
DefaultLmax == 2
\* CAMBparams.TCMB, in Kelvin
TCMB == 2

None == <<>>
Some(x) == <<x>>

DegenerateNames == {"H0", "cosmomc_theta"}
LmaxVals == (MaxLmax - 1)..MaxLmax

\* self.precision: precision settings fixed at the theory block level
precision == [AccuracyBoost |-> 1]

\* self.derived: declared derived parameters, in order
derivedNames == <<"YHe", "omegan">>

VARIABLES
    phase,      \* "new" before initialise, then "ready" or "failed"
    fixedCfg,   \* names the input file fixes, among DegenerateNames
    sampled,    \* self.sampled_params(), among DegenerateNames
    fixed,      \* self.fixed
    states,     \* self.states
    ret,        \* what the last call did and returned
    lru,        \* reference LRU list of the assignments used, newest first
    failures    \* number of compute calls that raised after calling the engine

vars == <<phase, fixedCfg, sampled, fixed, states, ret, lru, failures>>

(***************************************************************************)
(* Helpers for dicts, lists and rationals.                                 *)
(***************************************************************************)
\* a.update(b)
DictUpdate(a, b) ==
    [k \in DOMAIN a \cup DOMAIN b |-> IF k \in DOMAIN b THEN b[k] ELSE a[k]]

\* a.get(k, default)
DictGet(a, k, default) == IF k \in DOMAIN a THEN a[k] ELSE default

Max2(a, b) == IF a >= b THEN a ELSE b

SeqMax(s) == CHOOSE m \in {s[i] : i \in DOMAIN s} : \A i \in DOMAIN s : s[i] <= m

SeqMin(s) == CHOOSE m \in {s[i] : i \in DOMAIN s} : \A i \in DOMAIN s : m <= s[i]

\* list.index(x): position of the first occurrence
IndexOf(s, x) == CHOOSE i \in DOMAIN s : s[i] = x /\ \A j \in DOMAIN s : s[j] = x => i <= j

RECURSIVE GCD(_, _)
GCD(a, b) == IF b = 0 THEN a ELSE GCD(b, a % b)

Rat(n, d) == LET g == GCD(n, d) IN <<n \div g, d \div g>>

RatMul(q, r) == Rat(q[1] * r[1], q[2] * r[2])

RatDiv(q, r) == Rat(q[1] * r[2], q[2] * r[1])

(***************************************************************************)
(* The external engine.                                                    *)
(***************************************************************************)
\* camb.set_params(**args): the engine's parameter object
set_params(args) == [args |-> args]

\* camb.get_results(CAMBparams)
get_results(cp) == [Params |-> cp]

\* the value by which the sampled assignment is told apart
Seed(cp) == DictGet(cp.args, "omegabh2", 0)

\* CAMBresults.get_cmb_power_spectra(CAMBparams): columns TT, EE, BB, TE
get_cmb_power_spectra(res, cp) ==
    [total |-> [ell \in 0..DictGet(cp.args, "lmax", DefaultLmax) |->
                   [c \in 0..3 |-> Rat(Seed(res.Params) + ell + c + 1, 1)]]]

\* getattr(CAMBparams, p) for a declared derived parameter
getattr(cp, p) == IF p = "YHe" THEN 10 * (Seed(cp) % 2) + 1 ELSE 10 * (Seed(cp) % 2) + 2

(***************************************************************************)
(* initialise                                                              *)
(***************************************************************************)
EmptyState ==
    [CAMBparams |-> None, CAMBresults |-> None, powers |-> None,
     params |-> None, derived |-> None, last |-> 0]

NoRet ==
    [op |-> "none", ok |-> TRUE, err |-> "", p |-> None, derived |-> None,
     calls |-> <<>>, cl |-> None]

\* Conflict that only looks at the sampled parameters
Conflict_sampled(fx, smp) == \A p \in DegenerateNames : p \in smp

Conflict(fx, smp) ==
    \/ \A p \in DegenerateNames : p \in smp
    \/ \A p \in DegenerateNames : p \in DOMAIN fx

\* the input files considered: which degenerate names are fixed, which sampled
Configs == {<<{}, {"cosmomc_theta"}>>}

\* every input file: any of the degenerate names fixed, any of them sampled
AllConfigs == (SUBSET DegenerateNames) \X (SUBSET DegenerateNames)

InitWith(configs) ==
    /\ phase = "new"
    /\ \E c \in configs : fixedCfg = c[1] /\ sampled = c[2]
    /\ fixed = [k \in fixedCfg |-> 1]
    /\ states = <<>>
    /\ ret = NoRet
    /\ lru = <<>>
    /\ failures = 0

Init == InitWith(Configs)

InitAll == InitWith(AllConfigs)

initialise(importOk) ==
    /\ phase = "new"
    /\ UNCHANGED <<fixedCfg, sampled, lru, failures>>
    /\ IF ~importOk
       THEN /\ phase' = "failed"
            /\ ret' = [NoRet EXCEPT !.op = "initialise", !.ok = FALSE,
                                    !.err = "ImportError"]
            /\ UNCHANGED <<fixed, states>>
       ELSE /\ states' = [i \in 1..n_states |-> EmptyState]
            /\ IF Conflict(fixed, sampled)
               THEN /\ phase' = "failed"
                    /\ ret' = [NoRet EXCEPT !.op = "initialise", !.ok = FALSE,
                                            !.err = "ConfigurationConflict"]
                    /\ UNCHANGED fixed
               ELSE /\ phase' = "ready"
                    /\ ret' = [NoRet EXCEPT !.op = "initialise"]
                    /\ fixed' = IF "cosmomc_theta" \in DOMAIN fixed
                                   \/ "cosmomc_theta" \in sampled
                                THEN DictUpdate(fixed, [H0 |-> NoneVal])
                                ELSE fixed

(***************************************************************************)
(* current_state                                                           *)
(***************************************************************************)
Lasts(sts) == [i \in DOMAIN sts |-> sts[i].last]

current_index(sts) == IndexOf(Lasts(sts), SeqMax(Lasts(sts)))

current_state(sts) == sts[current_index(sts)]

(***************************************************************************)
(* set                                                                     *)
(***************************************************************************)
\* args = self.fixed; args.update(params_values_dict); args.update(precision)
\* args is the same object as self.fixed, so the updates land in self.fixed
SetArgs(fx, p) == DictUpdate(DictUpdate(fx, p), precision)

\* self.states[i_state]["params"] is written before the engine is called
set(sts, fx, p, i_state, engineOk) ==
    LET args == SetArgs(fx, p)
        s1 == [sts EXCEPT ![i_state].params = Some(p)]
    IN  [fixed |-> args,
         states |-> IF engineOk
                    THEN [s1 EXCEPT ![i_state].CAMBparams = Some(set_params(args))]
                    ELSE s1]

(***************************************************************************)
(* get_derived                                                             *)
(***************************************************************************)
\* the dict filled by get_derived when every declared name has a value
get_derived(sts, i_state) ==
    [k \in {derivedNames[j] : j \in DOMAIN derivedNames} |->
        getattr(sts[i_state].CAMBparams[1], k)]

\* the dict as left behind when the first declared name has no value
get_derived_missing == [k \in {derivedNames[1]} |-> NoneVal]

(***************************************************************************)
(* compute                                                                 *)
(***************************************************************************)
\* the parameter assignment the sampler passes for the value v
Assignment(v) == [k \in sampled \cup {"omegabh2"} |-> v]

\* a search that looks at the current state only
FindState_current(sts, p) ==
    IF current_state(sts).params = Some(p) THEN current_index(sts) ELSE 0

\* FindState that never finds the assignment
FindState_never(sts, p) == 0

\* index of the first state whose params equal the assignment, 0 if none
FindState(sts, p) ==
    IF \E i \in DOMAIN sts : sts[i].params = Some(p)
    THEN CHOOSE i \in DOMAIN sts :
            /\ sts[i].params = Some(p)
            /\ \A j \in DOMAIN sts : sts[j].params = Some(p) => i <= j
    ELSE 0

\* Victim that takes the newest state
Victim_newest(lasts) == IndexOf(lasts, SeqMax(lasts))

\* the (first) oldest state
Victim(lasts) == IndexOf(lasts, SeqMin(lasts))

\* Touch that gives the returned state the stamp 0
Touch_zero(sts, i_state, lasts) ==
    [i \in DOMAIN sts |->
        [sts[i] EXCEPT !.last = IF i = i_state THEN 0 ELSE @ - SeqMax(lasts)]]

\* Touch that forgets the antiquity of the rest
Touch_reset(sts, i_state, lasts) ==
    [i \in DOMAIN sts |-> [sts[i] EXCEPT !.last = IF i = i_state THEN 1 ELSE 0]]

\* Touch that decreases the antiquity of the populated states only
Touch_populated(sts, i_state, lasts) ==
    [i \in DOMAIN sts |->
        [sts[i] EXCEPT !.last = IF i = i_state THEN 1
                                ELSE IF sts[i].params = None THEN @
                                ELSE @ - SeqMax(lasts)]]

\* Touch that leaves the antiquity of the rest as it is
Touch_keep(sts, i_state, lasts) ==
    [i \in DOMAIN sts |-> [sts[i] EXCEPT !.last = IF i = i_state THEN 1 ELSE @]]

\* make i_state the current one by decreasing the antiquity of the rest
Touch(sts, i_state, lasts) ==
    [i \in DOMAIN sts |->
        [sts[i] EXCEPT !.last = IF i = i_state THEN 1 ELSE @ - SeqMax(lasts)]]

\* dict(zip(self.derived, values))
ZipDerived(values) ==
    [k \in {derivedNames[j] : j \in DOMAIN derivedNames \cap DOMAIN values} |->
        values[CHOOSE j \in DOMAIN derivedNames : derivedNames[j] = k]]

\* [derived[p] for p in self.derived]
DerivedList(d) == [j \in DOMAIN derivedNames |-> d[derivedNames[j]]]

Raise(sts, fx, err, calls, d) ==
    [states |-> sts, fixed |-> fx, ok |-> FALSE, err |-> err, calls |-> calls,
     derived |-> d]

Return(sts, fx, calls, d) ==
    [states |-> sts, fixed |-> fx, ok |-> TRUE, err |-> "", calls |-> calls,
     derived |-> d]

\* a hit that also empties the state of least stamp
ComputeHit_evict(sts, fx, i_state, wantDerived, lasts) ==
    Return(Touch([sts EXCEPT ![Victim(lasts)] =
                     IF Victim(lasts) = i_state THEN @ ELSE EmptyState],
                 i_state, lasts),
           fx, <<>>,
           IF wantDerived /\ sts[i_state].derived # None
           THEN Some(ZipDerived(sts[i_state].derived[1])) ELSE None)

\* the branch taken when the assignment is found in a state
ComputeHit(sts, fx, i_state, wantDerived, lasts) ==
    IF wantDerived /\ sts[i_state].derived = None
    THEN Raise(sts, fx, "TypeError", <<>>, Some(<<>>))
    ELSE Return(Touch(sts, i_state, lasts), fx, <<>>,
                IF wantDerived THEN Some(ZipDerived(sts[i_state].derived[1]))
                ELSE None)

\* the branch taken on StopIteration
ComputeMiss(sts, fx, p, wantDerived, lasts, outcome) ==
    LET i_state == Victim(lasts)
        s1 == set(sts, fx, p, i_state, outcome # "set_params")
        cp == s1.states[i_state].CAMBparams[1]
        s2 == [s1.states EXCEPT ![i_state].CAMBresults = Some(get_results(cp))]
        s3 == [s2 EXCEPT ![i_state].powers =
                  Some(get_cmb_power_spectra(s2[i_state].CAMBresults[1], cp))]
        d  == get_derived(s3, i_state)
        s4 == [s3 EXCEPT ![i_state].derived = Some(DerivedList(d))]
    IN  CASE outcome = "set_params" ->
               Raise(s1.states, s1.fixed, "EngineConfigurationError",
                     <<"set_params">>, IF wantDerived THEN Some(<<>>) ELSE None)
          [] outcome = "get_results" ->
               Raise(s1.states, s1.fixed, "EngineComputationError",
                     <<"set_params", "get_results">>,
                     IF wantDerived THEN Some(<<>>) ELSE None)
          [] outcome = "get_cmb_power_spectra" ->
               Raise(s2, s1.fixed, "EngineComputationError",
                     <<"set_params", "get_results", "get_cmb_power_spectra">>,
                     IF wantDerived THEN Some(<<>>) ELSE None)
          [] outcome = "get_derived" /\ wantDerived ->
               Raise(s3, s1.fixed, "MissingDerivedParameter",
                     <<"set_params", "get_results", "get_cmb_power_spectra">>,
                     Some(get_derived_missing))
          [] OTHER ->
               Return(Touch(IF wantDerived THEN s4 ELSE s3, i_state, lasts),
                      s1.fixed,
                      <<"set_params", "get_results", "get_cmb_power_spectra">>,
                      IF wantDerived THEN Some(d) ELSE None)

ComputeResult(sts, fx, p, wantDerived, outcome) ==
    LET lasts == Lasts(sts)
        i_state == FindState(sts, p)
    IN  IF i_state # 0
        THEN ComputeHit(sts, fx, i_state, wantDerived, lasts)
        ELSE ComputeMiss(sts, fx, p, wantDerived, lasts, outcome)

Outcomes == {"ok", "set_params", "get_results", "get_cmb_power_spectra", "get_derived"}

\* the reference LRU list after the assignment p is used
LruUse(l, p) ==
    LET rest == SelectSeq(l, LAMBDA q : q # p)
        all == <<p>> \o rest
    IN  IF Len(all) > n_states THEN SubSeq(all, 1, n_states) ELSE all

compute(v, wantDerived, outcome) ==
    /\ phase = "ready"
    /\ outcome = "get_derived" => wantDerived
    /\ FindState(states, Assignment(v)) # 0 => outcome = "ok"
    /\ \E p \in {Assignment(v)} :
       \E r \in {ComputeResult(states, fixed, p, wantDerived, outcome)} :
        /\ \A i \in DOMAIN r.states : r.states[i].last >= 0 - MaxDrift
        /\ states' = r.states
        /\ fixed' = r.fixed
        /\ ret' = [op |-> "compute", ok |-> r.ok, err |-> r.err, p |-> Some(p),
                   derived |-> r.derived, calls |-> r.calls, cl |-> None]
        /\ (~r.ok /\ r.calls # <<>>) => failures < MaxFailures
        /\ failures' = IF r.ok \/ r.calls = <<>> THEN failures ELSE failures + 1
        /\ lru' = IF failures' > 0 THEN <<>>
                  ELSE IF r.ok THEN LruUse(lru, p) ELSE lru
        /\ UNCHANGED <<phase, fixedCfg, sampled>>

(***************************************************************************)
(* needs                                                                   *)
(***************************************************************************)
\* the requirement dicts the likelihoods pass
NeedsArguments ==
    {a \in UNION {[d -> LmaxVals] : d \in SUBSET {"l_max", "Cl", "bogus"}} :
        \A k \in DOMAIN a : k # "l_max" => a[k] = 2}

\* the orders in which a dict with these keys may be iterated
Orders(keys) ==
    {o \in [1..Cardinality(keys) -> keys] :
        \A i, j \in DOMAIN o : i # j => o[i] # o[j]}

\* NeedsItem that stores the requested l_max without taking the max
NeedsItem_overwrite(fx, k, v) ==
    IF k = "l_max"
    THEN [fixed |-> DictUpdate(fx, [lmax |-> v]), ok |-> TRUE]
    ELSE [fixed |-> fx, ok |-> k = "Cl"]

\* one requirement: the fixed mapping afterwards, and whether it was understood
NeedsItem(fx, k, v) ==
    IF k = "l_max"
    THEN [fixed |-> DictUpdate(fx, [lmax |-> Max2(v, DictGet(fx, "lmax", 0))]),
          ok |-> TRUE]
    ELSE IF k = "Cl"
    THEN [fixed |-> fx, ok |-> TRUE]
    ELSE [fixed |-> fx, ok |-> FALSE]

\* for k,v in arguments.items(), from position j of the iteration order
RECURSIVE NeedsLoop(_, _, _, _)
NeedsLoop(fx, arguments, order, j) ==
    IF j > Len(order)
    THEN [fixed |-> fx, ok |-> TRUE]
    ELSE LET r == NeedsItem(fx, order[j], arguments[order[j]])
         IN  IF r.ok THEN NeedsLoop(r.fixed, arguments, order, j + 1) ELSE r

needs(arguments, order) ==
    /\ phase = "ready"
    /\ \E r \in {NeedsLoop(fixed, arguments, order, 1)} :
        /\ fixed' = r.fixed
        /\ ret' = [NoRet EXCEPT !.op = "needs", !.ok = r.ok,
                     !.err = IF r.ok THEN "" ELSE "UnsupportedRequirement",
                     !.p = Some(arguments)]
        /\ UNCHANGED <<phase, fixedCfg, sampled, states, lru, failures>>

(***************************************************************************)
(* get_cl                                                                  *)
(***************************************************************************)
\* deepcopy that hands back the object itself
deepcopy_alias(heap, ref) == [heap |-> heap, ref |-> ref]

\* deepcopy(obj): a new object on the heap, equal to the one referred to
deepcopy(heap, ref) ==
    [heap |-> DictUpdate(heap, [copy |-> heap[ref]]), ref |-> "copy"]

\* ell*(ell+1)/(2*pi), in units of 1/(2*pi)
ell_factor(ell) == Rat(ell * (ell + 1), 1)

\* (T*1.e6)**2, in units of 1e12
TScale(T) == Rat(T * T, 1)

\* c / ell_factor * (T*1.e6)**2, in units of 2*pi*1e12
Convert(c, ell, T) == RatMul(RatDiv(c, ell_factor(ell)), TScale(T))

\* a conversion that starts at ell = 1 (slice [1:] in place of [2:])
ConvertAll_from1(arr, T) ==
    [ell \in DOMAIN arr |->
        IF ell >= 1 THEN [c \in DOMAIN arr[ell] |-> Convert(arr[ell][c], ell, T)]
        ELSE arr[ell]]

\* cl[key][2:] = cl[key][2:] / ell_factor[2:] * (T*1.e6)**2, for the four keys
ConvertAll(arr, T) ==
    [ell \in DOMAIN arr |->
        IF ell >= 2 THEN [c \in DOMAIN arr[ell] |-> Convert(arr[ell][c], ell, T)]
        ELSE arr[ell]]

\* the dict get_cl returns: views on the columns of the array
ClViews(arr) ==
    [ell |-> [l \in DOMAIN arr |-> l],
     tt |-> [l \in DOMAIN arr |-> arr[l][0]],
     te |-> [l \in DOMAIN arr |-> arr[l][3]],
     ee |-> [l \in DOMAIN arr |-> arr[l][1]],
     bb |-> [l \in DOMAIN arr |-> arr[l][2]]]

GetClResult(sts) ==
    LET i == current_index(sts)
        cur == sts[i]
    IN  IF cur.powers = None \/ cur.CAMBparams = None
        THEN [states |-> sts, ok |-> FALSE, err |-> "TypeError", cl |-> None]
        ELSE LET h0 == [powers |-> cur.powers[1].total]
                 dc == deepcopy(h0, "powers")
                 h1 == [dc.heap EXCEPT ![dc.ref] = ConvertAll(@, TCMB)]
             IN  [states |-> [sts EXCEPT ![i].powers = Some([total |-> h1["powers"]])],
                  ok |-> TRUE, err |-> "", cl |-> Some(ClViews(h1[dc.ref]))]

get_cl ==
    /\ phase = "ready"
    /\ \E r \in {GetClResult(states)} :
        /\ states' = r.states
        /\ ret' = [NoRet EXCEPT !.op = "get_cl", !.ok = r.ok, !.err = r.err,
                                !.cl = r.cl]
        /\ UNCHANGED <<phase, fixedCfg, sampled, fixed, lru, failures>>

(***************************************************************************)
(* The specifications.                                                     *)
(*   Spec      derived parameters requested on every call, and at most     *)
(*             MaxFailures compute calls in which the engine fails         *)
(*   SpecOK    the runs in which every compute call returns, derived       *)
(*             parameters requested on some calls and not on others        *)
(*   SpecNeeds every input file, and requirements announced at any time    *)
(*             between compute calls                                       *)
(***************************************************************************)
\* a compute call that returns
computeOK(v, wantDerived) ==
    compute(v, wantDerived, "ok") /\ ret'.ok

Next ==
    \/ \E importOk \in BOOLEAN : initialise(importOk)
    \/ \E v \in 1..NumVals, outcome \in Outcomes : compute(v, TRUE, outcome)
    \/ get_cl

Spec == Init /\ [][Next]_vars

NextOK ==
    \/ \E importOk \in BOOLEAN : initialise(importOk)
    \/ \E v \in 1..NumVals, wantDerived \in BOOLEAN : computeOK(v, wantDerived)

SpecOK == Init /\ [][NextOK]_vars

NextNeeds ==
    \/ \E importOk \in BOOLEAN : initialise(importOk)
    \/ \E a \in NeedsArguments : \E o \in Orders(DOMAIN a) : needs(a, o)
    \/ \E v \in 1..NumValsNeeds : computeOK(v, FALSE)
    \/ get_cl

SpecNeeds == InitAll /\ [][NextNeeds]_vars

(***************************************************************************)
(* Claims.                                                                 *)
(***************************************************************************)
\* the assignment is the key of some state
Cached(sts, p) == \E i \in DOMAIN sts : sts[i].params = Some(p)

\* the state holding the assignment
SlotOf(sts, p) == CHOOSE i \in DOMAIN sts : sts[i].params = Some(p)

\* the keys held by the states
Keys(sts) == {sts[i].params[1] : i \in {j \in DOMAIN sts : sts[j].params # None}}

Populated(sts) == {i \in DOMAIN sts : sts[i].params # None}

Range(s) == {s[i] : i \in DOMAIN s}

\* no compute call has returned yet
NoComputeYet == \A i \in DOMAIN states : states[i].last = 0

\* C1: a compute call whose assignment is the key of a state invokes the
\* engine not at all and leaves that state's spectra and derived values as
\* they were; two consecutive compute calls with the same assignment invoke
\* the engine only in the first, and deliver the same spectra and derived values.
C1_HitAvoidsRecomputation ==
    [][(ret'.op = "compute" /\ ret'.ok) =>
         /\ Cached(states, ret'.p[1]) =>
              LET i == SlotOf(states, ret'.p[1])
              IN  /\ ret'.calls = <<>>
                  /\ states'[i].powers = states[i].powers
                  /\ states'[i].CAMBresults = states[i].CAMBresults
                  /\ states'[i].derived = states[i].derived
                  /\ current_index(states') = i
         /\ (ret.op = "compute" /\ ret.ok /\ ret.p = ret'.p) =>
              /\ ret'.calls = <<>>
              /\ current_state(states').powers = current_state(states).powers
              /\ (ret.derived # None /\ ret'.derived # None) => ret'.derived = ret.derived
         /\ ~Cached(states, ret'.p[1]) =>
              ret'.calls = <<"set_params", "get_results", "get_cmb_power_spectra">>]_vars

\* a hit delivered derived values right after a call with the same assignment
C1_Witness ==
    /\ ret.op = "compute" /\ ret.ok /\ ret.calls = <<>>
    /\ ret.derived # None
    /\ Cardinality(Populated(states)) = n_states

\* C2: after a compute call that returned, current_state() is the state whose
\* key is the assignment of that call, and no other state has that key.
C2_CurrentSlot ==
    (phase = "ready" /\ ret.op = "compute" /\ ret.ok) =>
        /\ current_state(states).params = ret.p
        /\ \A i \in DOMAIN states :
              states[i].params = ret.p => i = current_index(states)
        /\ \A i \in DOMAIN states :
              i # current_index(states) => states[i].last < current_state(states).last

\* a hit on the first state, with all states populated, after a call has raised
C2_Witness ==
    /\ ret.op = "compute" /\ ret.ok /\ ret.calls = <<>>
    /\ failures > 0
    /\ Cardinality(Populated(states)) = n_states
    /\ current_index(states) = 1

\* C3: while every compute call has returned, the keys held by the states are
\* the assignments of the reference LRU list of capacity n_states, one state
\* per assignment, so an evicted assignment is a miss when resubmitted.
C3_LruEquivalence ==
    phase = "ready" =>
        /\ Keys(states) = Range(lru)
        /\ Cardinality(Populated(states)) = Len(lru)
        /\ Len(lru) <= n_states
        /\ \A i \in Populated(states) : states[i].powers # None
        /\ Len(lru) > 0 => current_state(states).params = Some(lru[1])
        /\ \A i, j \in DOMAIN lru : i < j =>
              states[SlotOf(states, lru[i])].last > states[SlotOf(states, lru[j])].last

\* a miss has just evicted the first state, all states being populated
C3_Witness ==
    /\ ret.op = "compute" /\ ret.ok /\ ret.calls # <<>>
    /\ Len(lru) = n_states
    /\ Cardinality(Populated(states)) = n_states
    /\ current_index(states) = 1

\* C4: a compute call that raises leaves every state as it was.
C4_StateUnchangedOnFailure ==
    [][(ret'.op = "compute" /\ ~ret'.ok) => states' = states]_vars

\* C5: the derived values a compute call delivers are the engine's values for
\* the assignment of that call, and the derived values a state holds are those
\* of its key.
C5_DerivedBelongToKey ==
    /\ (ret.op = "compute" /\ ret.ok /\ ret.derived # None) =>
          ret.derived[1] =
             [k \in Range(derivedNames) |->
                 getattr(set_params(SetArgs(<<>>, ret.p[1])), k)]
    /\ \A i \in DOMAIN states :
          (states[i].derived # None /\ states[i].params # None) =>
              states[i].derived[1] =
                 DerivedList([k \in Range(derivedNames) |->
                    getattr(set_params(SetArgs(<<>>, states[i].params[1])), k)])

\* C6: before any compute call has returned, get_cl (through current_state)
\* raises EmptyCache.
C6_EmptyCacheIsError ==
    (ret.op = "get_cl" /\ NoComputeYet) => (~ret.ok /\ ret.err = "EmptyCache")

\* the aggregated multipole limit, 0 if none is stored
StoredLmax(fx) == DictGet(fx, "lmax", 0)

\* C7: the aggregated multipole limit never decreases, and after a needs call
\* that returned it is the maximum of the requested and the stored value.
C7_LmaxMonotone ==
    [][/\ StoredLmax(fixed') >= StoredLmax(fixed)
       /\ (ret'.op = "needs" /\ ret'.ok /\ "l_max" \in DOMAIN ret'.p[1]) =>
             /\ "lmax" \in DOMAIN fixed'
             /\ fixed'["lmax"] = Max2(ret'.p[1]["l_max"], StoredLmax(fixed))
       /\ (ret'.op = "needs" /\ ~("l_max" \in DOMAIN ret'.p[1])) => fixed' = fixed]_vars

\* a smaller limit was announced after a larger one
C7_Witness ==
    /\ ret.op = "needs" /\ ret.ok
    /\ "l_max" \in DOMAIN ret.p[1]
    /\ ret.p[1]["l_max"] < StoredLmax(fixed)

\* C8: a needs call that raises leaves the aggregated requirements as they were.
C8_RejectionLeavesRequirements ==
    [][(ret'.op = "needs" /\ ~ret'.ok) => fixed' = fixed]_vars

\* both degenerate names fixed, or both sampled, in the input file
BothFixedOrBothSampled ==
    \/ DegenerateNames \subseteq fixedCfg
    \/ DegenerateNames \subseteq sampled

\* C9: initialise raises the configuration conflict exactly for the input
\* files with both names fixed or both sampled; no compute call runs after it
\* raised; when it returns, all n_states states are empty.
C9_ConflictRejected ==
    /\ (phase # "new" /\ BothFixedOrBothSampled) => phase = "failed"
    /\ ret.err = "ConfigurationConflict" => BothFixedOrBothSampled
    /\ (phase = "failed" /\ ~BothFixedOrBothSampled) => ret.err = "ImportError"
    /\ (phase = "failed" /\ ret.err # "ImportError") => ret.err = "ConfigurationConflict"
    /\ phase = "failed" => \A i \in DOMAIN states : states[i] = EmptyState
    /\ (ret.op = "initialise" /\ ret.ok) =>
          /\ phase = "ready"
          /\ Len(states) = n_states
          /\ \A i \in DOMAIN states : states[i] = EmptyState

\* initialise has raised the conflict for an input file fixing both names
C9_Witness ==
    /\ phase = "failed"
    /\ ret.err = "ConfigurationConflict"
    /\ fixedCfg = DegenerateNames

\* C10: get_cl leaves every state as it was, and two consecutive get_cl calls
\* return equal results.
C10_GetClPure ==
    [][ret'.op = "get_cl" =>
         /\ states' = states
         /\ (ret.op = "get_cl" /\ ret.ok) => ret'.cl = ret.cl]_vars

\* get_cl has returned spectra that differ from the raw ones it read
C10_Witness ==
    /\ ret.op = "get_cl" /\ ret.ok
    /\ ret.cl[1].tt[2] # current_state(states).powers[1].total[2][0]
    /\ ret.cl[1].tt[1] = current_state(states).powers[1].total[1][0]

\* the column of the engine's array behind each channel of get_cl
Column == [tt |-> 0, te |-> 3, ee |-> 1, bb |-> 2]

\* x = c / (ell*(ell+1)/(2*pi)) * (T*1e6)^2, in units of 2*pi*1e12
IsConverted(x, c, ell) ==
    /\ x[2] > 0
    /\ x[1] * c[2] * ell * (ell + 1) = c[1] * TCMB * TCMB * x[2]

\* C11: for raw spectra of length L in the current state, get_cl returns
\* ell = 0..L-1 and the channels tt, te, ee, bb in which every entry at
\* ell >= 2 is the raw value divided by ell*(ell+1)/(2*pi) and multiplied by
\* (T*1e6)^2, and the entries at ell = 0 and ell = 1 are the raw values.
C11_Normalisation ==
    [][(ret'.op = "get_cl" /\ ret'.ok) =>
         LET raw == current_state(states).powers[1].total
             L == Cardinality(DOMAIN raw)
             cl == ret'.cl[1]
         IN  /\ DOMAIN cl = {"ell", "tt", "te", "ee", "bb"}
             /\ DOMAIN cl.ell = 0..(L - 1)
             /\ \A l \in 0..(L - 1) : cl.ell[l] = l
             /\ \A key \in DOMAIN Column :
                  /\ DOMAIN cl[key] = 0..(L - 1)
                  /\ \A l \in 0..(L - 1) :
                       IF l >= 2
                       THEN IsConverted(cl[key][l], raw[l][Column[key]], l)
                       ELSE cl[key][l] = raw[l][Column[key]]]_vars

\* get_cl has returned spectra of length 4 whose four channels differ at ell = 3
C11_Witness ==
    /\ ret.op = "get_cl" /\ ret.ok
    /\ DOMAIN ret.cl[1].tt = 0..3
    /\ Cardinality({ret.cl[1][key][3] : key \in DOMAIN Column}) = 4
    /\ ret.cl[1].tt[3] # current_state(states).powers[1].total[3][0]

\* C12: the state returned by a compute call that returned holds a stamp
\* strictly greater than that of every other state, and no other call changes
\* a stamp: in every state after a compute call has returned, the state of
\* the most recent such call is the only one with the greatest stamp.
C12_RecencyMaximum ==
    [][IF ret'.op = "compute" /\ ret'.ok
       THEN \E i \in DOMAIN states' :
               /\ states'[i].params = ret'.p
               /\ \A j \in DOMAIN states' \ {i} : states'[j].last < states'[i].last
       ELSE states # <<>> => Lasts(states') = Lasts(states)]_vars

\* a compute call has raised after the engine was called, with all states
\* populated and exactly one of them holding the greatest stamp
C12_Witness ==
    /\ ret.op = "compute" /\ ~ret.ok /\ ret.calls # <<>>
    /\ Cardinality(Populated(states)) = n_states
    /\ Cardinality({i \in DOMAIN states : states[i].last = SeqMax(Lasts(states))}) = 1
    /\ SeqMax(Lasts(states)) > SeqMin(Lasts(states))

\* C13: a compute call that returns keeps the order of the stamps of the
\* states other than the returned one: for two such states i and j,
\* stamp(i) < stamp(j) after the call exactly if it was so before; the state
\* with the least stamp among them stays the one with the least stamp.
C13_OrderPreserved ==
    [][(ret'.op = "compute" /\ ret'.ok) =>
         LET r == current_index(states')
             rest == DOMAIN states \ {r}
         IN  /\ states'[r].params = ret'.p
             /\ \A i, j \in rest :
                  (states'[i].last < states'[j].last) <=> (states[i].last < states[j].last)
             /\ \A i \in rest :
                  (\A j \in rest : states[i].last <= states[j].last)
                     => (\A j \in rest : states'[i].last <= states'[j].last)]_vars

\* a hit with all states populated, the stamps pairwise different and one of
\* them below -1
C13_Witness ==
    /\ ret.op = "compute" /\ ret.ok /\ ret.calls = <<>>
    /\ Cardinality(Populated(states)) = n_states
    /\ Cardinality({states[i].last : i \in DOMAIN states}) = n_states
    /\ \E i \in DOMAIN states : states[i].last < 0 - 1

\* two distinct states hold the same stamp
Tied(sts) ==
    {pr \in (DOMAIN sts) \X (DOMAIN sts) : pr[1] < pr[2] /\ sts[pr[1]].last = sts[pr[2]].last}

\* C14 as stated: whenever a miss selects its victim, no two distinct states
\* hold the same stamp.
C14_NoTiesAtEviction ==
    [][(ret'.op = "compute" /\ ~Cached(states, ret'.p[1])) => Tied(states) = {}]_vars

\* C14 amended: two distinct states hold the same stamp only if both hold
\* the least stamp, none above 0, and some state is still empty; when all
\* states are populated the stamps are pairwise distinct and the state with
\* the least stamp is unique.
C14_TiesOnlyAtMinimum ==
    phase = "ready" =>
        /\ \A pr \in Tied(states) :
              /\ states[pr[1]].last = SeqMin(Lasts(states))
              /\ states[pr[1]].last <= 0
              /\ \E k \in DOMAIN states : states[k].params = None
        /\ Cardinality(Populated(states)) = n_states =>
              Cardinality({states[i].last : i \in DOMAIN states}) = n_states

\* after a compute call that raised and one that returned, a populated state
\* and an empty one hold the same stamp
C14_Witness ==
    /\ failures > 0
    /\ ret.op = "compute" /\ ret.ok
    /\ \E pr \in Tied(states) :
          states[pr[1]].params # None /\ states[pr[2]].params = None

\* a state but for its stamp
Content(s) == [s EXCEPT !.last = 0]

\* C15: a compute call whose assignment is the key of a state changes no
\* state's key, engine parameter object, results, raw spectra or stored
\* derived values; of the cache it changes the stamps only.
C15_HitNeverEvicts ==
    [][(ret'.op = "compute" /\ Cached(states, ret'.p[1])) =>
         /\ DOMAIN states' = DOMAIN states
         /\ \A i \in DOMAIN states : Content(states'[i]) = Content(states[i])]_vars

\* a hit without derived values on the state that was the current one
\* already, with all states populated
C15_Witness ==
    /\ ret.op = "compute" /\ ret.ok /\ ret.calls = <<>> /\ ret.derived = None
    /\ Cardinality(Populated(states)) = n_states
    /\ \A i \in DOMAIN states : states[i].last # 0

\* C16: while every compute call has returned, a miss made while some state
\* is empty overwrites an empty state and leaves the key and the results of
\* every populated state in place; a populated state is overwritten only
\* when all n_states states are populated.
C16_EmptyFilledFirst ==
    [][(ret'.op = "compute" /\ ret'.ok /\ ~Cached(states, ret'.p[1])) =>
         \E i \in DOMAIN states' :
            /\ states'[i].params = ret'.p
            /\ Populated(states) # DOMAIN states =>
                 /\ states[i] = [EmptyState EXCEPT !.last = states[i].last]
                 /\ \A j \in Populated(states) : Content(states'[j]) = Content(states[j])
            /\ states[i].params # None => Populated(states) = DOMAIN states]_vars

\* a miss has filled the second state after repeated hits on the first; the
\* third is still empty
C16_Witness ==
    /\ ret.op = "compute" /\ ret.ok /\ ret.calls # <<>>
    /\ Cardinality(Populated(states)) = n_states - 1
    /\ \E i \in DOMAIN states : states[i].params = None /\ states[i].last < 0 - 1

\* the fixed parameters as initialise leaves them
InitialFixed ==
    LET fx == [k \in fixedCfg |-> 1]
    IN  IF "cosmomc_theta" \in fixedCfg \cup sampled
        THEN DictUpdate(fx, [H0 |-> NoneVal]) ELSE fx

\* the aggregated requirements, as a part of the engine's configuration
Requirements(fx) == [k \in DOMAIN fx \cap {"lmax"} |-> fx[k]]

\* C17: on a miss for the assignment p the configuration handed to the
\* engine is the initial fixed parameters, the aggregated requirements, p and
\* the precision settings, whatever the earlier compute calls were; and a
\* compute call leaves the fixed parameters and the requirements as they were.
C17_ConfigHistoryIndependent ==
    [][(ret'.op = "compute" /\ ret'.ok) =>
         /\ ~Cached(states, ret'.p[1]) =>
              current_state(states').CAMBparams[1].args =
                 DictUpdate(DictUpdate(DictUpdate(InitialFixed, Requirements(fixed)),
                                       ret'.p[1]), precision)
         /\ fixed' = fixed]_vars

\* the multipole limit with which the engine computed the spectra of a state
ComputedLmax(s) == Cardinality(DOMAIN s.powers[1].total) - 1

\* C18: whenever a compute call has returned, hit or miss, the spectra of the
\* current state were computed with a multipole limit at least as large as
\* every l_max announced through needs before the call.
C18_RequirementsApplied ==
    (phase = "ready" /\ ret.op = "compute" /\ ret.ok) =>
        ComputedLmax(current_state(states)) >= StoredLmax(fixed)

\* the state holds what an engine invocation for its key produces
ResultsOfKey(s) ==
    /\ s.CAMBparams # None /\ s.CAMBresults # None /\ s.powers # None
    /\ \A k \in DOMAIN s.params[1] : DictGet(s.CAMBparams[1].args, k, NoneVal) = s.params[1][k]
    /\ s.CAMBresults[1] = get_results(s.CAMBparams[1])
    /\ s.powers[1] = get_cmb_power_spectra(s.CAMBresults[1], s.CAMBparams[1])

\* C19: in every reachable state, also after compute calls that raised, every
\* state whose key is set holds the engine parameter object, results and raw
\* spectra of an engine invocation for that key; so after a compute call that
\* returned, the current state holds the engine's results for its assignment.
C19_KeyResultConsistency ==
    phase = "ready" =>
        /\ \A i \in Populated(states) : ResultsOfKey(states[i])
        /\ (ret.op = "compute" /\ ret.ok) =>
              /\ current_state(states).params = ret.p
              /\ ResultsOfKey(current_state(states))

\* C20: in every reachable state no two states hold equal keys: an
\* assignment is the key of at most one state.
C20_KeyUniqueness ==
    phase = "ready" =>
        \A i, j \in Populated(states) :
            states[i].params = states[j].params => i = j

\* all states hold keys, one of them the assignment of a compute call that
\* raised in the engine
C20_Witness ==
    /\ ret.op = "compute" /\ ~ret.ok /\ ret.calls # <<>>
    /\ Cached(states, ret.p[1])
    /\ Cardinality(Keys(states)) = n_states

====
